---- MODULE Spec2Model ----
(***************************************************************************)
(* Model of floatingtoolbar.py: the playback command routing performed by  *)
(* FloatingToolbar.execute_command when a toolbar button is clicked, the   *)
(* drag handlers of the buttons and of the window, the options panel with  *)
(* its delayed voice and speed commands, and quitting.                     *)
(***************************************************************************)
EXTENDS Integers, Sequences, FiniteSets, TLC

\* Number of button clicks a behaviour is followed for.
MaxPresses == 3

\* Number of mouse events a behaviour is followed for.
MaxEvents == 5

\* Bound on the voice/speed commands handed to execute_commands_with_delay.
MaxSubmitted == 3

\* Clock ticks in one InitializationDelay.
DelayTicks == 2

\* Number of events of any kind (clicks, mouse events, panel operations,
\* timers) a behaviour of the whole toolbar is followed for.
MaxSteps == 4

\* init_ui: the keys of the toolbar buttons it can create; each button is
\* connected to execute_command(cmd_key).
Buttons == {"record", "rewind", "play", "pause", "stop", "fast_forward"}

\* init_ui: buttons_config. The record button is created only when
\* [Commands] has the option record (has_option), whatever its value.
ButtonsConfig(has_record) ==
    IF has_record THEN Buttons ELSE Buttons \ {"record"}

\* Options of the [Commands] section that execute_command reads.
CommandKeys == Buttons \cup {"resume"}

\* The values play_state takes: "" (idle), "playing", "paused".
PlayStates == {"", "playing", "paused"}

\* create_default_config: the command strings of the [Commands] section.
DefaultCommands ==
    [k \in CommandKeys |->
        CASE k = "record"       -> "echo \"Record pressed\""
          [] k = "rewind"       -> "echo \"Rewind pressed\""
          [] k = "play"         -> "echo \"Play pressed\""
          [] k = "pause"        -> "echo \"Pause pressed\""
          [] k = "resume"       -> "echo \"Resume pressed\""
          [] k = "stop"         -> "echo \"Stop pressed\""
          [] k = "fast_forward" -> "echo \"Fast forward pressed\""]

\* load_config: what self.config.get('Commands', k, fallback='') can return.
\* Every option is either configured with its command or yields '' (option
\* absent, or present with an empty value: both read as '').
Configs ==
    {[k \in CommandKeys |-> IF k \in S THEN DefaultCommands[k] ELSE ""] :
        S \in SUBSET CommandKeys}

\* Outcomes of subprocess.Popen(command, shell=True): the child is started
\* ("ok"), or the call raises an error ("raised": OSError when the shell
\* cannot be forked or executed, ValueError for an embedded null byte).
PopenOutcomes == {"ok", "raised"}

VARIABLES
    play_state,     \* self.play_state
    config,         \* self.config, section [Commands], as read by config.get
    buttons_config, \* the keys of the buttons init_ui created
    calls,          \* the execute_command calls made so far, one record each:
                    \*   key     - the argument command_key
                    \*   pre     - self.play_state when the call started
                    \*   command - the local variable `command`
                    \*   popen   - "none" (Popen not called), "ok", or the error raised
    uncaught,       \* TRUE when an exception left execute_command
    draggable,      \* self.draggable
    drag_started,   \* self.drag_started
    offset,         \* self.offset (None, or a vector)
    press_pos,      \* self.press_pos (None, or a point)
    pos,            \* self.pos(): the position of the toolbar window
    widget,         \* the toolbar button that receives the mouse events
    down,           \* that button is down (isDown(), kept by its original handlers)
    pressed,        \* a left press hit that button and no left release reached
                    \* its original handler since (the handlers' own flag)
    last_event,     \* the most recent mouse event and what its handler did
    gesture,        \* what happened since the latest primary press: its point,
                    \* the window position then, the number of moves, whether a
                    \* move went beyond the threshold (far) and one came back
                    \* within it afterwards (returned), whether the window was
                    \* repositioned (moved), and whether the press came with a
                    \* session already active (presses = 2)
    n_events,       \* number of mouse events so far
    behavior,       \* self.config: VoiceChange and SpeedChange present,
                    \* Remember_Voice_and_Speed, animation, [SpeedDefaults]
    current_settings, \* self.config, section [CurrentSettings]
    current_voice,  \* self.current_voice
    current_speed,  \* self.current_speed
    pending_voice,  \* self.pending_voice
    pending_speed,  \* self.pending_speed
    expanded,       \* self.expanded
    expanded_widget, \* self.expanded_widget is not None
    animating,      \* the collapse animation is running
    voice_combo,    \* current text of self.voice_combo
    speed_combo,    \* current text of self.speed_combo
    initializing,   \* self.initializing
    submitted,      \* the commands handed to execute_commands_with_delay so
                    \* far, in the order they were handed over
    launched,       \* the Popen calls of execute_next_command so far: the
                    \* position of the command in `submitted`, and the outcome
    timers,         \* the pending QTimer.singleShot callbacks, oldest first
    startup,        \* the batch initialize_settings handed over: the
                    \* positions of its commands in `submitted`
    dropdown_changed, \* the panel is there and the user changed a dropdown
                    \* since it was opened
    n_steps,        \* number of events handled by the whole toolbar so far
    app             \* the event loop of main: "running"; "asking" while
                    \* confirm_quit waits in QMessageBox.question; "quit"
                    \* once QApplication.quit() was called

routerVars == <<play_state, config, buttons_config, calls, uncaught>>

dragVars == <<draggable, drag_started, offset, press_pos, pos, widget, down,
              pressed, last_event, gesture, n_events>>

queueVars == <<behavior, current_settings, current_voice, current_speed,
               pending_voice, pending_speed, expanded, expanded_widget,
               animating, voice_combo, speed_combo, initializing, submitted,
               launched, timers, startup, dropdown_changed>>

vars == <<play_state, config, buttons_config, calls, uncaught, draggable, drag_started, offset,
          press_pos, pos, widget, down, pressed, last_event, gesture, n_events,
          behavior, current_settings, current_voice, current_speed,
          pending_voice, pending_speed, expanded, expanded_widget,
          animating, voice_combo, speed_combo, initializing, submitted,
          launched, timers, startup, dropdown_changed, n_steps, app>>

\* execute_command: the [Commands] option read for button `key` in state `st`.
RoutedKeyPlayNeverResumes(key, st) ==
    CASE key = "play"  -> "play"
      [] key = "pause" -> IF st = "playing" THEN "pause"
                          ELSE IF st = "paused" THEN "resume"
                          ELSE "pause"
      [] OTHER         -> key

RoutedKeyPauseNeverResumes(key, st) ==
    CASE key = "play"  -> IF st = "paused" THEN "resume" ELSE "play"
      [] key = "pause" -> "pause"
      [] OTHER         -> key

RoutedKey(key, st) ==
    CASE key = "play"  -> IF st = "paused" THEN "resume" ELSE "play"
      [] key = "pause" -> IF st = "playing" THEN "pause"
                          ELSE IF st = "paused" THEN "resume"
                          ELSE "pause"
      [] key = "stop"  -> "stop"
      [] key \in {"rewind", "fast_forward"} -> key
      [] OTHER         -> key

\* execute_command: the value of self.play_state after the statements that
\* follow a Popen call that returned, for button `key` pressed in state `st`
\* (`st` itself in the branches that assign nothing).
AssignedStateIdlePauseSetsPaused(key, st) ==
    CASE key = "play"  -> "playing"
      [] key = "pause" -> IF st = "paused" THEN "playing" ELSE "paused"
      [] key = "stop"  -> ""
      [] key \in {"rewind", "fast_forward"} -> "playing"
      [] OTHER         -> st

AssignedStateSeekKeepsState(key, st) ==
    CASE key = "play"  -> "playing"
      [] key = "pause" -> IF st = "playing" THEN "paused"
                          ELSE IF st = "paused" THEN "playing"
                          ELSE st
      [] key = "stop"  -> ""
      [] OTHER         -> st

AssignedStateStopKeepsPaused(key, st) ==
    CASE key = "play"  -> "playing"
      [] key = "pause" -> IF st = "playing" THEN "paused"
                          ELSE IF st = "paused" THEN "playing"
                          ELSE st
      [] key = "stop"  -> IF st = "paused" THEN "paused" ELSE ""
      [] key \in {"rewind", "fast_forward"} -> "playing"
      [] OTHER         -> st

AssignedStatePauseResets(key, st) ==
    CASE key = "play"  -> "playing"
      [] key = "pause" -> IF st = "playing" THEN ""
                          ELSE IF st = "paused" THEN "playing"
                          ELSE st
      [] key = "stop"  -> ""
      [] key \in {"rewind", "fast_forward"} -> "playing"
      [] OTHER         -> st

AssignedStateRecordResets(key, st) ==
    CASE key = "play"  -> "playing"
      [] key = "pause" -> IF st = "playing" THEN "paused"
                          ELSE IF st = "paused" THEN "playing"
                          ELSE st
      [] key = "stop"  -> ""
      [] key \in {"rewind", "fast_forward"} -> "playing"
      [] OTHER         -> ""

AssignedState(key, st) ==
    CASE key = "play"  -> "playing"
      [] key = "pause" -> IF st = "playing" THEN "paused"
                          ELSE IF st = "paused" THEN "playing"
                          ELSE st
      [] key = "stop"  -> ""
      [] key \in {"rewind", "fast_forward"} -> "playing"
      [] OTHER         -> st

\* execute_command: `if command:` guards every Popen call.
Launches(cmd) == cmd # ""

\* execute_command: the assignment to self.play_state follows Popen inside
\* the try block, so it is reached only when Popen was called and returned.
ReachesAssignmentAlways(result) == TRUE

ReachesAssignmentAfterRaise(result) == result # "none"

ReachesAssignment(result) == result = "ok"

\* execute_command: `except Exception as e: print(...)` catches every error
\* Popen raises (OSError and ValueError are subclasses of Exception).
CaughtNothing(result) == FALSE

Caught(result) == result = "raised"

\* A button can be clicked while the application runs (an exception leaving
\* a slot terminates it).
CanPress == ~uncaught /\ Len(calls) < MaxPresses

\* button.clicked -> self.execute_command(key); `outcome` is what Popen
\* does if it is called.
execute_command(key, outcome) ==
    /\ CanPress
    /\ LET cmd    == config[RoutedKey(key, play_state)]
           result == IF Launches(cmd) THEN outcome ELSE "none"
       IN  /\ play_state' = IF ReachesAssignment(result)
                            THEN AssignedState(key, play_state)
                            ELSE play_state
           /\ uncaught' = (result = "raised" /\ ~Caught(result))
           /\ calls' = Append(calls, [key |-> key, pre |-> play_state,
                                      command |-> cmd, popen |-> result])
    /\ UNCHANGED <<config, buttons_config>>

(***************************************************************************)
(* setup_dragging: the handlers installed on every toolbar button.         *)
(***************************************************************************)

\* Python's None.
None == <<>>

\* mouse_move: `if distance > 5`.
DragThreshold == 5

\* create_default_config / init_ui: initial_x, initial_y of [Appearance].
InitialX == 100

InitialY == 100

\* Global pointer positions delivered with the mouse events.
PointerPoints ==
    {<<100, 100>>, <<101, 101>>, <<105, 100>>, <<103, 103>>, <<110, 100>>}

\* event.button(): Qt.MouseButton.LeftButton or another button.
MouseButtons == {"left", "right"}

\* The buttons whose handlers are followed.
DragWidgets == {"play", "stop"}

\* QPoint subtraction.
Minus(p, q) == <<p[1] - q[1], p[2] - q[2]>>

Abs(n) == IF n < 0 THEN -n ELSE n

\* QPoint.manhattanLength().
chebyshevLength(v) == IF Abs(v[1]) > Abs(v[2]) THEN Abs(v[1]) ELSE Abs(v[2])

manhattanLength(v) == Abs(v[1]) + Abs(v[2])

\* mouse_move: `if distance > 5:  # 5 pixel threshold`.
ReachesThreshold(distance) == distance >= DragThreshold

ExceedsThreshold(distance) == distance > DragThreshold

\* mouse_press / mouse_release: `if event.button() == Qt.MouseButton.LeftButton`.
AnyButton(button) == TRUE

IsLeftButton(button) == button = "left"

\* mouse_press: self.offset = event.globalPosition().toPoint() - self.pos().
PressOffset(point, window) == Minus(point, window)

\* mouse_press: self.drag_started = False.
DragStartedAtPress(started) == FALSE

\* mouse_press: self.press_pos = event.globalPosition().toPoint().
FirstPressPos(point, old) == IF old = None THEN point ELSE old

PressPos(point, old) == point

\* mouse_press: original_press(event) is the last statement, after the
\* assignments; the session fields it finds are those after them.
BeforeBookkeeping(before, after) == before

SeenByOriginalPress(before, after) == after

\* mouse_press: the number of calls of original_press(event).
PressForwards(button) == 1

\* mouse_move: `if not self.drag_started: ... if distance > 5:
\* self.drag_started = True`: the flag after the test, given whether the
\* distance of this move exceeds the threshold.
ArmedUnlatched(started, exceeds) == exceeds

ArmedAfterMove(started, exceeds) == started \/ exceeds

\* mouse_move: `if self.draggable and self.offset is not None`.
SessionActive(d, off) == d /\ off # None

\* mouse_move: self.move(current_pos - self.offset).
DragTargetFromPressPos(point, off, pp) == Minus(point, pp)

DragTarget(point, off, pp) == Minus(point, off)

\* mouse_release: `if not was_dragging: original_release(event)`.
AlwaysForwardsRelease(was_dragging) == 1

ReleaseForwards(was_dragging) == IF was_dragging THEN 0 ELSE 1

\* mouse_release: self.draggable = False.
DraggableToggled(d) == ~d

DraggableKept(d) == d

DraggableAfterRelease(d) == FALSE

\* The session fields of the toolbar.
Session(d, started, off, pp) ==
    [draggable |-> d, drag_started |-> started, offset |-> off, press_pos |-> pp]

CurrentSession == Session(draggable, drag_started, offset, press_pos)

\* The record kept of a mouse event: its kind, button and point, the
\* session fields and window position before it, the number of calls of the
\* button's original handler, the session fields that handler found, the
\* number of execute_command calls and the playback state before it,
\* whether the button was down before it, and, for a release, whether the
\* pointer is over the button.
EventRecord(type, button, point, inside, forwards, seen) ==
    [type |-> type, button |-> button, point |-> point,
     inside |-> (type = "release" /\ inside),
     pre |-> CurrentSession, pre_pos |-> pos,
     forwards |-> forwards, seen |-> seen,
     pre_calls |-> Len(calls), pre_play |-> play_state, pre_down |-> down]

\* A mouse event can be delivered while the application runs.
CanDeliver == ~uncaught /\ n_events < MaxEvents

\* original_press (QAbstractButton.mousePressEvent): a left press with the
\* pointer over the button puts the button down and marks it pressed; any
\* other press leaves both as they are.
DownAfterPress(button, inside, d) == IF button = "left" /\ inside THEN TRUE ELSE d

PressedAfterPress(button, inside, p) == IF button = "left" /\ inside THEN TRUE ELSE p

\* mouse_press(event) on the button, the event at `point` with `button`;
\* `inside` tells whether event.position(), the pointer in the button's own
\* coordinates, is within the button (a press reaches the button with the
\* pointer off it while another mouse button is held on it).
mouse_press(button, point, inside) ==
    /\ CanDeliver
    /\ LET left  == IsLeftButton(button)
           after == IF left
                    THEN Session(TRUE, DragStartedAtPress(drag_started),
                                 PressOffset(point, pos), PressPos(point, press_pos))
                    ELSE CurrentSession
       IN  /\ draggable' = after.draggable
           /\ drag_started' = after.drag_started
           /\ offset' = after.offset
           /\ press_pos' = after.press_pos
           /\ last_event' = EventRecord("press", button, point, inside, PressForwards(button),
                                        SeenByOriginalPress(CurrentSession, after))
           /\ gesture' = IF left
                         THEN [press_point |-> point, start_pos |-> pos,
                               moves |-> 0, far |-> FALSE, returned |-> FALSE,
                               moved |-> FALSE,
                               presses |-> IF draggable THEN 2 ELSE 1]
                         ELSE gesture
    \* original_press(event)
    /\ down' = DownAfterPress(button, inside, down)
    /\ pressed' = PressedAfterPress(button, inside, pressed)
    /\ n_events' = n_events + 1
    /\ UNCHANGED <<pos, widget>>
    /\ UNCHANGED routerVars
    /\ UNCHANGED queueVars

\* original_move (QAbstractButton.mouseMoveEvent): while the left button is
\* held and the button is marked pressed, the button is down exactly when
\* the pointer is over it; any other move leaves it as it is.
DownAfterMove(held, was_pressed, inside, d) ==
    IF held /\ was_pressed THEN inside ELSE d

\* mouse_move(event) on the button, the pointer at `point`; `inside` tells
\* whether event.position(), the pointer in the button's own coordinates,
\* is within the button (the layout that relates the two is Qt's). The left
\* button is held exactly while self.draggable is set: every left press
\* sets it and every left release clears it.
mouse_move(point, inside) ==
    /\ CanDeliver
    /\ LET active  == SessionActive(draggable, offset)
           started == IF active
                      THEN ArmedAfterMove(drag_started,
                              ExceedsThreshold(manhattanLength(Minus(point, press_pos))))
                      ELSE drag_started
           drags   == active /\ started
       IN  /\ drag_started' = started
           /\ pos' = IF drags THEN DragTarget(point, offset, press_pos) ELSE pos
           /\ last_event' = EventRecord("move", "none", point, inside,
                                        IF drags THEN 0 ELSE 1, CurrentSession)
           /\ gesture' = IF draggable
                         THEN LET beyond == Abs(point[1] - gesture.press_point[1])
                                           + Abs(point[2] - gesture.press_point[2]) > 5
                              IN  [gesture EXCEPT
                                     !.moves = @ + 1,
                                     !.far = @ \/ beyond,
                                     !.returned = @ \/ (gesture.far /\ ~beyond),
                                     !.moved = @ \/ drags]
                         ELSE gesture
           \* original_move(event) is reached only when the move does not
           \* reposition the window
           /\ down' = IF drags THEN down
                      ELSE DownAfterMove(draggable, pressed, inside, down)
    /\ n_events' = n_events + 1
    /\ UNCHANGED <<draggable, offset, press_pos, widget, pressed>>
    /\ UNCHANGED routerVars
    /\ UNCHANGED queueVars

\* original_release (QAbstractButton.mouseReleaseEvent) of a left release:
\* the button is clicked when it is down and the pointer is over it; in
\* every case it is left not down and not pressed.
ReleaseClicks(d, inside) == d /\ inside

\* mouse_release(event) on the button with `button`; `inside` tells whether
\* event.position() is within the button; `outcome` is what Popen does if
\* the release clicks the button and a command is launched.
mouse_release(button, inside, outcome) ==
    /\ CanDeliver
    /\ LET left     == IsLeftButton(button)
           forwards == IF left THEN ReleaseForwards(drag_started) ELSE 1
           \* original_release(event) acts on a left release only
           original == forwards > 0 /\ button = "left"
           click    == original /\ ReleaseClicks(down, inside)
       IN  /\ draggable' = IF left THEN DraggableAfterRelease(draggable) ELSE draggable
           /\ drag_started' = IF left THEN FALSE ELSE drag_started
           /\ offset' = IF left THEN None ELSE offset
           /\ last_event' = EventRecord("release", button, None, inside, forwards,
                                        IF left THEN Session(FALSE, FALSE, None, press_pos)
                                                ELSE CurrentSession)
           /\ down' = IF original THEN FALSE ELSE down
           /\ pressed' = IF original THEN FALSE ELSE pressed
           /\ IF click
              THEN execute_command(widget, outcome)
              ELSE outcome = "ok" /\ UNCHANGED routerVars
    /\ n_events' = n_events + 1
    /\ UNCHANGED <<press_pos, pos, widget, gesture>>
    /\ UNCHANGED queueVars

\* What a press does to the summary of the current gesture.
GestureAtPress(button, point) ==
    IF IsLeftButton(button)
    THEN [press_point |-> point, start_pos |-> pos,
          moves |-> 0, far |-> FALSE, returned |-> FALSE, moved |-> FALSE,
          presses |-> IF draggable THEN 2 ELSE 1]
    ELSE gesture

\* mousePressEvent(event) of the toolbar window itself: a press outside the
\* buttons. event.position() is the pointer relative to the window.
mousePressEvent(button, point) ==
    /\ CanDeliver
    /\ LET left  == IsLeftButton(button)
           after == IF left
                    THEN Session(TRUE, FALSE, Minus(point, pos), point)
                    ELSE CurrentSession
       IN  /\ draggable' = after.draggable
           /\ drag_started' = after.drag_started
           /\ offset' = after.offset
           /\ press_pos' = after.press_pos
           /\ last_event' = EventRecord("press", button, point, FALSE, 0, CurrentSession)
           /\ gesture' = GestureAtPress(button, point)
    /\ n_events' = n_events + 1
    /\ UNCHANGED <<pos, widget, down, pressed>>
    /\ UNCHANGED routerVars
    /\ UNCHANGED queueVars

\* mouseMoveEvent(event) of the toolbar window itself.
mouseMoveEvent(point) ==
    /\ CanDeliver
    /\ LET active  == SessionActive(draggable, offset)
           started == IF active
                      THEN drag_started
                           \/ manhattanLength(Minus(point, press_pos)) > DragThreshold
                      ELSE drag_started
           drags   == active /\ started
       IN  /\ drag_started' = started
           /\ pos' = IF drags THEN Minus(point, offset) ELSE pos
           /\ last_event' = EventRecord("move", "none", point, FALSE, 0, CurrentSession)
           /\ gesture' = IF draggable
                         THEN LET beyond == Abs(point[1] - gesture.press_point[1])
                                           + Abs(point[2] - gesture.press_point[2]) > 5
                              IN  [gesture EXCEPT
                                     !.moves = @ + 1,
                                     !.far = @ \/ beyond,
                                     !.returned = @ \/ (gesture.far /\ ~beyond),
                                     !.moved = @ \/ drags]
                         ELSE gesture
    /\ n_events' = n_events + 1
    /\ UNCHANGED <<draggable, offset, press_pos, widget, down, pressed>>
    /\ UNCHANGED routerVars
    /\ UNCHANGED queueVars

\* mouseReleaseEvent(event) of the toolbar window itself.
mouseReleaseEvent(button) ==
    /\ CanDeliver
    /\ LET left == IsLeftButton(button)
       IN  /\ draggable' = IF left THEN FALSE ELSE draggable
           /\ drag_started' = IF left THEN FALSE ELSE drag_started
           /\ offset' = IF left THEN None ELSE offset
           /\ last_event' = EventRecord("release", button, None, FALSE, 0, CurrentSession)
    /\ n_events' = n_events + 1
    /\ UNCHANGED <<press_pos, pos, widget, down, pressed, gesture>>
    /\ UNCHANGED routerVars
    /\ UNCHANGED queueVars

(***************************************************************************)
(* The options panel and the delayed voice/speed commands.                 *)
(***************************************************************************)

\* A string attribute that is still None.
Unset == "None"

\* Python truth of a string attribute.
Truthy(s) == s \notin {"", Unset}

\* [VoiceSpeed] VoiceChoices and SpeedChoices, in the order of the dropdowns.
VoiceChoices == <<"af_bella", "af_nicole">>

SpeedChoices == <<"1.0", "1.1">>

Range(s) == {s[i] : i \in DOMAIN s}

\* [SpeedDefaults]: the default speed of each voice, "" where there is none.
NoSpeedDefaults == [v \in Range(VoiceChoices) |-> ""]

NicoleFaster == [v \in Range(VoiceChoices) |-> IF v = "af_nicole" THEN "1.1" ELSE ""]

\* self.config as the panel, the delayed commands and confirm_quit read it.
Behavior(voice, speed, remember, animate, defaults, confirm) ==
    [VoiceChange |-> voice, SpeedChange |-> speed, Remember |-> remember,
     animation |-> animate, SpeedDefaults |-> defaults, ConfirmQuit |-> confirm]

\* The configurations of the panel, of the delayed commands and of quitting
\* that are followed: one with [SpeedDefaults]; one that does not remember
\* the settings; one without SpeedChange and without animation; one without
\* VoiceChange; one with neither and without ConfirmQuit.
Behaviors ==
    { Behavior(TRUE, TRUE, TRUE, TRUE, NicoleFaster, TRUE),
      Behavior(TRUE, TRUE, FALSE, TRUE, NoSpeedDefaults, TRUE),
      Behavior(TRUE, FALSE, TRUE, FALSE, NicoleFaster, TRUE),
      Behavior(FALSE, TRUE, TRUE, TRUE, NoSpeedDefaults, TRUE),
      Behavior(FALSE, FALSE, TRUE, FALSE, NoSpeedDefaults, FALSE) }

\* create_default_config: both change commands, no [SpeedDefaults]; the
\* fallbacks of Remember_Voice_and_Speed and ConfirmQuit.
DefaultBehavior ==
    [VoiceChange |-> TRUE, SpeedChange |-> TRUE, Remember |-> TRUE,
     animation |-> TRUE, SpeedDefaults |-> NoSpeedDefaults,
     ConfirmQuit |-> TRUE]

\* ('voice', command.replace('{choice}', choice)): the change command of
\* `type` with `choice` substituted.
Command(type, choice) == [type |-> type, choice |-> choice]

\* initialize_settings: the commands replayed at startup.
InitialCommands(cv, cs, b) ==
    IF ~b.Remember THEN <<>>
    ELSE (IF Truthy(cv) /\ b.VoiceChange THEN <<Command("voice", cv)>> ELSE <<>>)
         \o (IF Truthy(cs) /\ b.SpeedChange THEN <<Command("speed", cs)>> ELSE <<>>)

VoiceAppliedWhenSame(pv, cv, b) == Truthy(pv) /\ b.VoiceChange

\* apply_pending_changes: the voice (speed) change is taken.
VoiceApplied(pv, cv, b) == Truthy(pv) /\ pv # cv /\ b.VoiceChange

SpeedApplied(ps, cs, b) == Truthy(ps) /\ ps # cs /\ b.SpeedChange

\* apply_pending_changes: commands_to_execute.
PendingCommands(pv, ps, cv, cs, b) ==
    (IF VoiceApplied(pv, cv, b) THEN <<Command("voice", pv)>> ELSE <<>>)
    \o (IF SpeedApplied(ps, cs, b) THEN <<Command("speed", ps)>> ELSE <<>>)

\* The positions in `submitted` of a batch of n commands handed over after
\* `before` earlier ones: the list `commands` of execute_commands_with_delay.
Batch(before, n) == [i \in 1..n |-> before + i]

\* execute_next_command(index): the Popen call.
LaunchedAfter(log, batch, index, outcome) ==
    IF index < Len(batch)
    THEN Append(log, [id |-> batch[index + 1], popen |-> outcome])
    ELSE log

TimersAfterNone(ts, batch, index) == ts

\* execute_next_command(index): the timer for the next command of the batch.
TimersAfter(ts, batch, index) ==
    IF index < Len(batch) /\ index + 1 < Len(batch)
    THEN Append(ts, [remaining |-> DelayTicks, kind |-> "next",
                     batch |-> batch, index |-> index + 1])
    ELSE ts

FinishTimerAtOnce(n) ==
    [remaining |-> 0, kind |-> "finish", batch |-> <<>>, index |-> 0]

\* initialize_settings: the timer of finish_initialization.
FinishTimer(n) ==
    [remaining |-> n * DelayTicks, kind |-> "finish", batch |-> <<>>, index |-> 0]

\* The text a dropdown shows when it is created.
ComboText(choices, current) ==
    IF Truthy(current) /\ current \in Range(choices) THEN current ELSE choices[1]

\* __init__: load_config and initialize_settings with the given
\* [CurrentSettings] and configuration; `outcome` is what Popen does for the
\* first replayed command.
QueueStart(cv, cs, b, outcome) ==
    LET commands == InitialCommands(cv, cs, b)
        batch    == Batch(0, Len(commands))
    IN  /\ behavior = b
        /\ current_settings = [current_voice |-> cv, current_speed |-> cs]
        /\ current_voice = cv
        /\ current_speed = cs
        /\ pending_voice = Unset
        /\ pending_speed = Unset
        /\ expanded = FALSE
        /\ expanded_widget = FALSE
        /\ animating = FALSE
        /\ voice_combo = Unset
        /\ speed_combo = Unset
        /\ initializing = (commands # <<>>)
        /\ submitted = commands
        /\ launched = LaunchedAfter(<<>>, batch, 0, outcome)
        /\ timers = IF commands # <<>>
                    THEN Append(TimersAfter(<<>>, batch, 0), FinishTimer(Len(commands)))
                    ELSE <<>>
        /\ startup = batch
        /\ dropdown_changed = FALSE
        /\ (commands = <<>> => outcome = "ok")

\* expand_options, create_expanded_widget included.
expand_options ==
    /\ ~expanded
    /\ expanded' = TRUE
    /\ expanded_widget' = TRUE
    /\ voice_combo' = ComboText(VoiceChoices, current_voice)
    /\ speed_combo' = ComboText(SpeedChoices, current_speed)
    /\ pending_voice' = current_voice
    /\ pending_speed' = current_speed
    /\ dropdown_changed' = FALSE
    /\ UNCHANGED <<behavior, current_settings, current_voice, current_speed,
                   animating, initializing, submitted, launched, timers,
                   startup>>

\* collapse_options: apply_pending_changes (execute_commands_with_delay and
\* save_current_settings included), then the panel is removed, at once or
\* when the animation has finished.
collapse_options(outcome) ==
    /\ expanded /\ expanded_widget
    /\ LET voice    == VoiceApplied(pending_voice, current_voice, behavior)
           speed    == SpeedApplied(pending_speed, current_speed, behavior)
           commands == PendingCommands(pending_voice, pending_speed,
                                       current_voice, current_speed, behavior)
           batch    == Batch(Len(submitted), Len(commands))
           cv       == IF voice THEN pending_voice ELSE current_voice
           cs       == IF speed THEN pending_speed ELSE current_speed
       IN  /\ Len(submitted) + Len(commands) <= MaxSubmitted
           /\ (commands = <<>> => outcome = "ok")
           /\ current_voice' = cv
           /\ current_speed' = cs
           /\ submitted' = submitted \o commands
           /\ launched' = LaunchedAfter(launched, batch, 0, outcome)
           /\ timers' = TimersAfter(timers, batch, 0)
           /\ current_settings' =
                 IF Truthy(cv) \/ Truthy(cs)
                 THEN [current_voice |-> IF Truthy(cv) THEN cv ELSE "",
                       current_speed |-> IF Truthy(cs) THEN cs ELSE ""]
                 ELSE current_settings
    /\ IF behavior.animation
       THEN /\ animating' = TRUE
            /\ UNCHANGED <<expanded, expanded_widget, dropdown_changed>>
       ELSE /\ animating' = FALSE
            /\ expanded' = FALSE
            /\ expanded_widget' = FALSE
            /\ dropdown_changed' = FALSE
    /\ UNCHANGED <<behavior, pending_voice, pending_speed, voice_combo,
                   speed_combo, initializing, startup>>

\* remove_expanded_widget, called when the collapse animation has finished.
remove_expanded_widget ==
    /\ animating
    /\ animating' = FALSE
    /\ expanded_widget' = FALSE
    /\ expanded' = FALSE
    /\ dropdown_changed' = FALSE
    /\ UNCHANGED <<behavior, current_settings, current_voice, current_speed,
                   pending_voice, pending_speed, voice_combo, speed_combo,
                   initializing, submitted, launched, timers, startup>>

\* A right click that would also reset the playback state.
contextMenuEvent_stops(outcome) ==
    /\ IF expanded
       THEN collapse_options(outcome)
       ELSE outcome = "ok" /\ expand_options
    /\ play_state' = ""
    /\ UNCHANGED <<config, buttons_config, calls, uncaught>>
    /\ UNCHANGED dragVars

\* contextMenuEvent: a right click on the toolbar.
contextMenuEvent(outcome) ==
    /\ IF expanded
       THEN collapse_options(outcome)
       ELSE outcome = "ok" /\ expand_options
    /\ UNCHANGED routerVars
    /\ UNCHANGED dragVars

\* The OK button of the panel is clicked.
ok_clicked(outcome) ==
    /\ expanded_widget
    /\ collapse_options(outcome)
    /\ UNCHANGED routerVars
    /\ UNCHANGED dragVars

\* on_voice_dropdown_changed(choice): the voice dropdown shows a new text.
on_voice_dropdown_changed(choice) ==
    /\ expanded_widget
    /\ choice # voice_combo
    /\ voice_combo' = choice
    /\ pending_voice' = choice
    /\ LET default_speed == behavior.SpeedDefaults[choice]
       IN  IF Truthy(default_speed) /\ default_speed \in Range(SpeedChoices)
           THEN speed_combo' = default_speed /\ pending_speed' = default_speed
           ELSE UNCHANGED <<speed_combo, pending_speed>>
    /\ dropdown_changed' = TRUE
    /\ UNCHANGED <<behavior, current_settings, current_voice, current_speed,
                   expanded, expanded_widget, animating, initializing,
                   submitted, launched, timers, startup>>
    /\ UNCHANGED routerVars
    /\ UNCHANGED dragVars

on_speed_dropdown_applied(choice) ==
    /\ expanded_widget
    /\ choice # speed_combo
    /\ speed_combo' = choice
    /\ pending_speed' = choice
    /\ current_speed' = choice
    /\ dropdown_changed' = TRUE
    /\ UNCHANGED <<behavior, current_settings, current_voice,
                   pending_voice, expanded, expanded_widget, animating,
                   voice_combo, initializing, submitted, launched, timers,
                   startup>>
    /\ UNCHANGED routerVars
    /\ UNCHANGED dragVars

\* on_speed_dropdown_changed(choice): the speed dropdown shows a new text.
on_speed_dropdown_changed(choice) ==
    /\ expanded_widget
    /\ choice # speed_combo
    /\ speed_combo' = choice
    /\ pending_speed' = choice
    /\ dropdown_changed' = TRUE
    /\ UNCHANGED <<behavior, current_settings, current_voice, current_speed,
                   pending_voice, expanded, expanded_widget, animating,
                   voice_combo, initializing, submitted, launched, timers,
                   startup>>
    /\ UNCHANGED routerVars
    /\ UNCHANGED dragVars

\* cancel_changes (the definition in force, the second one) with
\* collapse_options_without_applying: the Cancel button of the panel is
\* clicked. setCurrentText emits currentTextChanged when the text changes,
\* which runs the dropdown handlers before cancel_changes goes on.
cancel_changes ==
    /\ expanded_widget
    /\ LET voice_emits  == /\ Truthy(current_voice)
                           /\ current_voice \in Range(VoiceChoices)
                           /\ voice_combo # current_voice
           default_speed == IF voice_emits
                            THEN behavior.SpeedDefaults[current_voice]
                            ELSE ""
           by_default   == Truthy(default_speed) /\ default_speed \in Range(SpeedChoices)
           speed_shown  == IF by_default THEN default_speed ELSE speed_combo
           speed_kept   == IF by_default THEN default_speed ELSE current_speed
           speed_resets == Truthy(current_speed) /\ current_speed \in Range(SpeedChoices)
       IN  /\ voice_combo' = IF voice_emits THEN current_voice ELSE voice_combo
           /\ pending_voice' = current_voice
           /\ speed_combo' = IF speed_resets THEN current_speed ELSE speed_shown
           /\ pending_speed' = IF speed_resets /\ speed_shown # current_speed
                               THEN current_speed
                               ELSE speed_kept
    /\ IF expanded /\ expanded_widget
       THEN IF behavior.animation
            THEN /\ animating' = TRUE
                 /\ UNCHANGED <<expanded, expanded_widget, dropdown_changed>>
            ELSE /\ animating' = FALSE
                 /\ expanded' = FALSE
                 /\ expanded_widget' = FALSE
                 /\ dropdown_changed' = FALSE
       ELSE UNCHANGED <<animating, expanded, expanded_widget, dropdown_changed>>
    /\ UNCHANGED <<behavior, current_settings, current_voice, current_speed,
                   initializing, submitted, launched, timers, startup>>
    /\ UNCHANGED routerVars
    /\ UNCHANGED dragVars

\* The pending timers without the i-th.
WithoutTimer(ts, i) == [j \in 1..(Len(ts) - 1) |-> IF j < i THEN ts[j] ELSE ts[j + 1]]

\* The timer that fires next: the oldest one that is due.
DueTimer == CHOOSE i \in DOMAIN timers :
               /\ timers[i].remaining = 0
               /\ \A j \in 1..(i - 1) : timers[j].remaining # 0

\* A single-shot timer fires: execute_next_command(index) of its batch, or
\* finish_initialization.
timer_fired(outcome) ==
    /\ \E i \in DOMAIN timers : timers[i].remaining = 0
    /\ LET t    == timers[DueTimer]
           rest == WithoutTimer(timers, DueTimer)
       IN  IF t.kind = "next"
           THEN /\ launched' = LaunchedAfter(launched, t.batch, t.index, outcome)
                /\ timers' = TimersAfter(rest, t.batch, t.index)
                /\ UNCHANGED initializing
           ELSE /\ outcome = "ok"
                /\ initializing' = FALSE
                /\ timers' = rest
                /\ UNCHANGED launched
    /\ UNCHANGED <<behavior, current_settings, current_voice, current_speed,
                   pending_voice, pending_speed, expanded, expanded_widget,
                   animating, voice_combo, speed_combo, submitted, startup,
                   dropdown_changed>>
    /\ UNCHANGED routerVars
    /\ UNCHANGED dragVars

\* Time passes while no timer is due.
tick ==
    /\ timers # <<>>
    /\ \A i \in DOMAIN timers : timers[i].remaining > 0
    /\ timers' = [i \in DOMAIN timers |-> [timers[i] EXCEPT !.remaining = @ - 1]]
    /\ UNCHANGED <<behavior, current_settings, current_voice, current_speed,
                   pending_voice, pending_speed, expanded, expanded_widget,
                   animating, voice_combo, speed_combo, initializing,
                   submitted, launched, startup, dropdown_changed>>
    /\ UNCHANGED routerVars
    /\ UNCHANGED dragVars

\* The collapse animation finishes.
animation_finished ==
    /\ remove_expanded_widget
    /\ UNCHANGED routerVars
    /\ UNCHANGED dragVars

\* The replies QMessageBox.question returns to confirm_quit.
Replies == {"Yes", "No"}

\* clear_current_settings: [CurrentSettings] is removed, so both of its
\* options read as ''.
ClearedSettings == [current_voice |-> "", current_speed |-> ""]

\* quit_application: clear_current_settings unless the settings are
\* remembered, then QApplication.quit().
quit_application ==
    /\ current_settings' = IF behavior.Remember
                           THEN current_settings
                           ELSE ClearedSettings
    /\ app' = "quit"
    /\ UNCHANGED <<behavior, current_voice, current_speed, pending_voice,
                   pending_speed, expanded, expanded_widget, animating,
                   voice_combo, speed_combo, initializing, submitted,
                   launched, timers, startup, dropdown_changed>>
    /\ UNCHANGED routerVars
    /\ UNCHANGED dragVars

\* confirm_quit up to its dialog: with ConfirmQuit it waits in
\* QMessageBox.question, without it the application quits.
confirm_quit ==
    /\ app = "running"
    /\ IF behavior.ConfirmQuit
       THEN /\ app' = "asking"
            /\ UNCHANGED queueVars
            /\ UNCHANGED routerVars
            /\ UNCHANGED dragVars
       ELSE quit_application

\* The Quit button of the panel is clicked.
quit_clicked ==
    /\ expanded_widget
    /\ confirm_quit

\* Ctrl+Q is pressed (quit_shortcut.activated).
quit_shortcut == confirm_quit

\* confirm_quit after its dialog: QMessageBox.question returns `reply`.
question_answered(reply) ==
    /\ app = "asking"
    /\ IF reply = "Yes"
       THEN quit_application
       ELSE /\ app' = "running"
            /\ UNCHANGED queueVars
            /\ UNCHANGED routerVars
            /\ UNCHANGED dragVars

\* An input event reaches the toolbar: the event loop runs and no modal
\* dialog takes the input.
ToWindow == app = "running" /\ UNCHANGED app

\* A timer or an animation is served by the event loop, also by the one of
\* the modal dialog.
InLoop == app # "quit" /\ UNCHANGED app

\* init_ui: the fields of the drag handlers after construction.
InitDragState ==
    /\ draggable = FALSE
    /\ drag_started = FALSE
    /\ offset = None
    /\ press_pos = None
    /\ pos = <<InitialX, InitialY>>
    /\ down = FALSE
    /\ pressed = FALSE
    /\ last_event = [type |-> "none", button |-> "none", point |-> None,
                     inside |-> FALSE,
                     pre |-> Session(FALSE, FALSE, None, None),
                     pre_pos |-> <<InitialX, InitialY>>,
                     forwards |-> 0, seen |-> Session(FALSE, FALSE, None, None),
                     pre_calls |-> 0, pre_play |-> "", pre_down |-> FALSE]
    /\ gesture = [press_point |-> None, start_pos |-> <<InitialX, InitialY>>,
                  moves |-> 0, far |-> FALSE, returned |-> FALSE,
                  moved |-> FALSE, presses |-> 0]
    /\ n_events = 0
    /\ n_steps = 0
    /\ app = "running"

Init ==
    /\ play_state = ""
    /\ config \in Configs
    /\ \E has_record \in BOOLEAN :
          /\ config["record"] # "" => has_record
          /\ buttons_config = ButtonsConfig(has_record)
    /\ calls = <<>>
    /\ uncaught = FALSE
    /\ InitDragState
    /\ widget = "play"
    /\ QueueStart("", "", DefaultBehavior, "ok")

\* button.clicked emitted without a mouse gesture (keyboard activation).
\* Qt activates the button with click(), which leaves it not down.
clicked(key, outcome) ==
    /\ key \in buttons_config
    /\ execute_command(key, outcome)
    /\ down' = IF key = widget THEN FALSE ELSE down
    /\ UNCHANGED <<draggable, drag_started, offset, press_pos, pos, widget,
                   pressed, last_event, gesture, n_events>>
    /\ UNCHANGED queueVars

Next ==
    /\ \E key \in Buttons, outcome \in PopenOutcomes : clicked(key, outcome)
    /\ ToWindow
    /\ UNCHANGED n_steps

Spec == Init /\ [][Next]_vars

\* The toolbar with the default configuration, driven by the mouse.
InitDrag ==
    /\ play_state = ""
    /\ config = DefaultCommands
    /\ buttons_config = ButtonsConfig(TRUE)
    /\ calls = <<>>
    /\ uncaught = FALSE
    /\ InitDragState
    /\ widget \in DragWidgets
    /\ QueueStart("", "", DefaultBehavior, "ok")

NextDrag ==
    \/ /\ \E button \in MouseButtons, point \in PointerPoints,
             inside \in BOOLEAN : mouse_press(button, point, inside)
       /\ ToWindow
       /\ UNCHANGED n_steps
    \/ /\ \E point \in PointerPoints, inside \in BOOLEAN : mouse_move(point, inside)
       /\ ToWindow
       /\ UNCHANGED n_steps
    \/ /\ \E button \in MouseButtons, inside \in BOOLEAN,
             outcome \in PopenOutcomes : mouse_release(button, inside, outcome)
       /\ ToWindow
       /\ UNCHANGED n_steps

SpecDrag == InitDrag /\ [][NextDrag]_vars

\* The pointer positions of the events on the toolbar window itself: the
\* initial window position and a point beyond the drag threshold from it.
WindowPoints == {<<100, 100>>, <<110, 100>>}

\* The drag detector with both sets of handlers: events on a button and
\* events on the toolbar window itself.
NextDetector ==
    \/ NextDrag
    \/ /\ \E button \in MouseButtons, point \in WindowPoints : mousePressEvent(button, point)
       /\ ToWindow
       /\ UNCHANGED n_steps
    \/ /\ \E point \in WindowPoints : mouseMoveEvent(point)
       /\ ToWindow
       /\ UNCHANGED n_steps
    \/ /\ \E button \in MouseButtons : mouseReleaseEvent(button)
       /\ ToWindow
       /\ UNCHANGED n_steps

SpecDetector == InitDrag /\ [][NextDetector]_vars

\* [CurrentSettings] as load_config finds it: no voice or one of the
\* choices, no speed or the first of the choices.
SavedVoices == Range(VoiceChoices) \cup {""}

SavedSpeeds == {"", SpeedChoices[1]}

\* The toolbar with a saved voice and speed, driven by the panel, the
\* timers and the quit controls.
InitQueue ==
    /\ play_state = ""
    /\ config = DefaultCommands
    /\ buttons_config = ButtonsConfig(TRUE)
    /\ calls = <<>>
    /\ uncaught = FALSE
    /\ InitDragState
    /\ widget = "play"
    /\ \E cv \in SavedVoices, cs \in SavedSpeeds,
          b \in Behaviors, outcome \in PopenOutcomes :
          QueueStart(cv, cs, b, outcome)

NextQueue ==
    \/ /\ \E outcome \in PopenOutcomes : contextMenuEvent(outcome)
       /\ ToWindow
       /\ UNCHANGED n_steps
    \/ /\ \E outcome \in PopenOutcomes : ok_clicked(outcome)
       /\ ToWindow
       /\ UNCHANGED n_steps
    \/ /\ cancel_changes
       /\ ToWindow
       /\ UNCHANGED n_steps
    \/ /\ \E choice \in Range(VoiceChoices) : on_voice_dropdown_changed(choice)
       /\ ToWindow
       /\ UNCHANGED n_steps
    \/ /\ \E choice \in Range(SpeedChoices) : on_speed_dropdown_changed(choice)
       /\ ToWindow
       /\ UNCHANGED n_steps
    \/ /\ animation_finished
       /\ InLoop
       /\ UNCHANGED n_steps
    \/ /\ \E outcome \in PopenOutcomes : timer_fired(outcome)
       /\ InLoop
       /\ UNCHANGED n_steps
    \/ /\ tick
       /\ InLoop
       /\ UNCHANGED n_steps
    \/ /\ quit_clicked
       /\ UNCHANGED n_steps
    \/ /\ quit_shortcut
       /\ UNCHANGED n_steps
    \/ /\ \E reply \in Replies : question_answered(reply)
       /\ UNCHANGED n_steps

SpecQueue == InitQueue /\ [][NextQueue]_vars

\* The toolbar with the default configuration and a saved voice, with or
\* without a saved speed, replayed at startup.
InitQueueConfigured ==
    /\ play_state = ""
    /\ config = DefaultCommands
    /\ buttons_config = ButtonsConfig(TRUE)
    /\ calls = <<>>
    /\ uncaught = FALSE
    /\ InitDragState
    /\ widget = "play"
    /\ \E cs \in SavedSpeeds, outcome \in PopenOutcomes :
          QueueStart(VoiceChoices[1], cs, DefaultBehavior, outcome)

\* The event loop, while it runs, lets time pass and runs every single-shot
\* timer that is due.
SpecQueueFair ==
    /\ InitQueueConfigured
    /\ [][NextQueue]_vars
    /\ WF_vars(tick /\ InLoop /\ UNCHANGED n_steps)
    /\ WF_vars(/\ \E outcome \in PopenOutcomes : timer_fired(outcome)
               /\ InLoop
               /\ UNCHANGED n_steps)

\* The whole toolbar: every handler of the program, with the default
\* configuration and a saved voice and speed replayed at startup.
InitAll ==
    /\ play_state = ""
    /\ config = DefaultCommands
    /\ buttons_config = ButtonsConfig(TRUE)
    /\ calls = <<>>
    /\ uncaught = FALSE
    /\ InitDragState
    /\ widget = "play"
    /\ \E outcome \in PopenOutcomes :
          QueueStart(VoiceChoices[1], SpeedChoices[1], DefaultBehavior, outcome)

\* The buttons clicked and the mouse events delivered while the whole
\* toolbar is followed: the play, pause and stop buttons; the left mouse
\* button; a point at the initial window position and one beyond the drag
\* threshold from it.
ClickedButtons == {"play", "pause", "stop"}

DeliveredButtons == {"left"}

DeliveredPoints == {<<100, 100>>, <<110, 100>>}

\* With the left button alone no other button holds the pointer on a
\* toolbar button, so a press reaches a button only with the pointer over it.
DeliveredInside == {TRUE}

\* The presses delivered are at the initial window position.
PressedPoints == {<<100, 100>>}

\* One event handled by the event loop.
Handled == n_steps < MaxSteps /\ n_steps' = n_steps + 1

NextAll ==
    \/ /\ \E key \in ClickedButtons, outcome \in PopenOutcomes : clicked(key, outcome)
       /\ ToWindow
       /\ Handled
    \/ /\ \E button \in DeliveredButtons, point \in PressedPoints,
             inside \in DeliveredInside : mouse_press(button, point, inside)
       /\ ToWindow
       /\ Handled
    \/ /\ \E point \in DeliveredPoints, inside \in BOOLEAN : mouse_move(point, inside)
       /\ ToWindow
       /\ Handled
    \/ /\ \E button \in DeliveredButtons, inside \in BOOLEAN,
             outcome \in PopenOutcomes : mouse_release(button, inside, outcome)
       /\ ToWindow
       /\ Handled
    \/ /\ \E button \in DeliveredButtons, point \in PressedPoints : mousePressEvent(button, point)
       /\ ToWindow
       /\ Handled
    \/ /\ \E point \in DeliveredPoints : mouseMoveEvent(point)
       /\ ToWindow
       /\ Handled
    \/ /\ \E button \in DeliveredButtons : mouseReleaseEvent(button)
       /\ ToWindow
       /\ Handled
    \/ /\ \E outcome \in PopenOutcomes : contextMenuEvent(outcome)
       /\ ToWindow
       /\ Handled
    \/ /\ \E outcome \in PopenOutcomes : ok_clicked(outcome)
       /\ ToWindow
       /\ Handled
    \/ /\ cancel_changes
       /\ ToWindow
       /\ Handled
    \/ /\ \E choice \in Range(VoiceChoices) : on_voice_dropdown_changed(choice)
       /\ ToWindow
       /\ Handled
    \/ /\ \E choice \in Range(SpeedChoices) : on_speed_dropdown_changed(choice)
       /\ ToWindow
       /\ Handled
    \/ /\ animation_finished
       /\ InLoop
       /\ Handled
    \/ /\ \E outcome \in PopenOutcomes : timer_fired(outcome)
       /\ InLoop
       /\ Handled
    \/ /\ tick
       /\ InLoop
       /\ Handled
    \/ /\ quit_clicked
       /\ Handled
    \/ /\ quit_shortcut
       /\ Handled
    \/ /\ \E reply \in Replies : question_answered(reply)
       /\ Handled

SpecAll == InitAll /\ [][NextAll]_vars

TypeOK ==
    /\ play_state \in PlayStates
    /\ config \in Configs
    /\ Len(calls) \in 0..MaxPresses
    /\ \A i \in 1..Len(calls) :
          /\ calls[i].key \in Buttons
          /\ calls[i].pre \in PlayStates
          /\ calls[i].popen \in PopenOutcomes \cup {"none"}
    /\ uncaught \in BOOLEAN
    /\ buttons_config \in {ButtonsConfig(TRUE), ButtonsConfig(FALSE)}
    /\ app \in {"running", "asking", "quit"}

(***************************************************************************)
(* Properties of the playback command routing.                             *)
(***************************************************************************)

\* The playback state after the i-th call returned: the state the next call
\* started in, or the current state for the most recent call.
Post(i) == IF i < Len(calls) THEN calls[i + 1].pre ELSE play_state

\* The buttons of the transition table (every button but the pass-through ones).
TableButtons == {"play", "pause", "stop", "rewind", "fast_forward"}

\* Next state of the transition table (spec section 4.2) for a table button.
TableNext(key, st) ==
    CASE key = "play"  -> "playing"
      [] key = "pause" -> IF st = "playing" THEN "paused"
                          ELSE IF st = "paused" THEN "playing"
                          ELSE ""
      [] key = "stop"  -> ""
      [] key \in {"rewind", "fast_forward"} -> "playing"

\* The i-th call pressed `key` and its command was launched (Popen returned).
Launched(i, key) == calls[i].key = key /\ calls[i].popen = "ok"

\* C1: every 'play' press whose command is configured and launched launches
\* the 'play' command from Idle or Playing and the 'resume' command from
\* Paused, and leaves the playback state Playing.
C1_PlayLaunchesPlayOrResume ==
    \A i \in 1..Len(calls) :
        Launched(i, "play") =>
            /\ calls[i].command # ""
            /\ calls[i].command =
                  (IF calls[i].pre = "paused" THEN config["resume"] ELSE config["play"])
            /\ Post(i) = "playing"

\* A launched 'play' press from Paused: 'resume' was run and the state is Playing.
C1_Witness ==
    \E i \in 1..Len(calls) :
        /\ Launched(i, "play")
        /\ calls[i].pre = "paused"
        /\ calls[i].command = DefaultCommands["resume"]
        /\ Post(i) = "playing"

\* C2: every launched 'pause' press from Playing runs 'pause' and leaves
\* Paused, from Paused runs 'resume' and leaves Playing; two consecutive
\* launched 'pause' presses starting in Playing or Paused therefore swap the
\* state back and run different commands (pause, resume, pause, ...).
C2_PauseToggles ==
    /\ \A i \in 1..Len(calls) :
        Launched(i, "pause") =>
            /\ calls[i].pre = "playing" =>
                  calls[i].command = config["pause"] /\ Post(i) = "paused"
            /\ calls[i].pre = "paused" =>
                  calls[i].command = config["resume"] /\ Post(i) = "playing"
    /\ \A i \in 1..(Len(calls) - 1) :
        (Launched(i, "pause") /\ Launched(i + 1, "pause") /\ calls[i].pre # "") =>
            /\ {calls[i].pre, calls[i + 1].pre} = {"playing", "paused"}
            /\ Post(i + 1) = calls[i].pre
            /\ {calls[i].command, calls[i + 1].command} =
                  {DefaultCommands["pause"], DefaultCommands["resume"]}

\* Two launched 'pause' presses in a row from Playing: Paused, then Playing again.
C2_Witness ==
    \E i \in 1..(Len(calls) - 1) :
        /\ Launched(i, "pause") /\ Launched(i + 1, "pause")
        /\ calls[i].pre = "playing"
        /\ calls[i + 1].pre = "paused"
        /\ Post(i + 1) = "playing"

\* C3 as stated: every 'stop' press, from any playback state, runs the
\* command configured under 'stop' and leaves the playback state Idle.
C3_AsStated ==
    \A i \in 1..Len(calls) :
        calls[i].key = "stop" =>
            /\ calls[i].command = config["stop"]
            /\ Post(i) = ""

\* C3 (amended): every 'stop' press whose command is configured and launched
\* runs the 'stop' command and leaves the state Idle, from any state; the
\* launch is attempted whenever 'stop' is configured; a launched 'stop' that
\* follows a launched 'stop' starts in Idle and leaves Idle again.
C3_StopResetsWhenLaunched ==
    /\ \A i \in 1..Len(calls) :
        calls[i].key = "stop" =>
            /\ calls[i].command = config["stop"]
            /\ config["stop"] # "" => calls[i].popen # "none"
            /\ calls[i].popen = "ok" => calls[i].command # "" /\ Post(i) = ""
    /\ \A i \in 1..(Len(calls) - 1) :
        (Launched(i, "stop") /\ Launched(i + 1, "stop")) =>
            calls[i + 1].pre = "" /\ Post(i + 1) = ""

\* A launched 'stop' from Playing followed by a launched 'stop' from Idle.
C3_Witness ==
    \E i \in 1..(Len(calls) - 1) :
        /\ Launched(i, "stop") /\ Launched(i + 1, "stop")
        /\ calls[i].pre = "playing"
        /\ calls[i + 1].pre = ""
        /\ play_state = ""

\* C4 as stated: every 'rewind' or 'fast_forward' press, from any playback
\* state, runs the command configured under that key and leaves Playing.
C4_AsStated ==
    \A i \in 1..Len(calls) :
        calls[i].key \in {"rewind", "fast_forward"} =>
            /\ calls[i].command = config[calls[i].key]
            /\ Post(i) = "playing"

\* C4 (amended): every 'rewind' or 'fast_forward' press whose command is
\* configured and launched runs the command configured under that same key
\* (never 'resume' or 'play') and leaves the state Playing, from any state;
\* the launch is attempted whenever that command is configured.
C4_SeekPlaysWhenLaunched ==
    \A i \in 1..Len(calls) :
        calls[i].key \in {"rewind", "fast_forward"} =>
            /\ calls[i].command = config[calls[i].key]
            /\ config[calls[i].key] # "" => calls[i].popen # "none"
            /\ calls[i].popen = "ok" =>
                  /\ calls[i].command = DefaultCommands[calls[i].key]
                  /\ Post(i) = "playing"

\* A launched seek from Paused: the seek command was run and the state is Playing.
C4_Witness ==
    \E i \in 1..Len(calls) :
        /\ calls[i].key \in {"rewind", "fast_forward"}
        /\ calls[i].popen = "ok"
        /\ calls[i].pre = "paused"
        /\ Post(i) = "playing"

\* C5: a press of a button outside the table ('record') never changes the
\* playback state; it launches the command configured under its own key, and
\* calls the launcher exactly when that command is non-empty.
C5_OtherKeyPassThrough ==
    \A i \in 1..Len(calls) :
        calls[i].key \notin TableButtons =>
            /\ Post(i) = calls[i].pre
            /\ calls[i].command = config[calls[i].key]
            /\ (calls[i].popen # "none") <=> (config[calls[i].key] # "")

\* A launched 'record' press while Playing: the state is still Playing.
C5_Witness ==
    \E i \in 1..Len(calls) :
        /\ Launched(i, "record")
        /\ calls[i].pre = "playing"
        /\ Post(i) = "playing"

\* C6: a 'pause' press while Idle runs the configured 'pause' command (the
\* launcher is called whenever it is configured) and leaves the state Idle.
C6_PauseWhileIdle ==
    \A i \in 1..Len(calls) :
        (calls[i].key = "pause" /\ calls[i].pre = "") =>
            /\ calls[i].command = config["pause"]
            /\ config["pause"] # "" => calls[i].popen # "none"
            /\ Post(i) = ""

\* A launched 'pause' press while Idle: the state is still Idle.
C6_Witness ==
    \E i \in 1..Len(calls) :
        /\ Launched(i, "pause")
        /\ calls[i].pre = ""
        /\ calls[i].command = DefaultCommands["pause"]
        /\ Post(i) = ""

\* C7 as stated: when a table button is pressed and the command it routes
\* to is unconfigured, no process is launched and the playback state still
\* makes the transition of the table.
C7_AsStated ==
    \A i \in 1..Len(calls) :
        (calls[i].key \in TableButtons /\ calls[i].command = "") =>
            /\ calls[i].popen = "none"
            /\ Post(i) = TableNext(calls[i].key, calls[i].pre)

\* C7 (amended): when a table button is pressed and the command it routes to
\* is unconfigured, no process is launched and the playback state is left
\* as it was.
C7_MissingCommandKeepsState ==
    \A i \in 1..Len(calls) :
        (calls[i].key \in TableButtons /\ calls[i].command = "") =>
            /\ calls[i].popen = "none"
            /\ Post(i) = calls[i].pre

\* A 'stop' press while Playing with no 'stop' command: still Playing.
C7_Witness ==
    \E i \in 1..Len(calls) :
        /\ calls[i].key = "stop"
        /\ config["stop"] = ""
        /\ calls[i].popen = "none"
        /\ calls[i].pre = "playing"
        /\ Post(i) = "playing"

\* C8 as stated: when the launch for a table button raises an error, the
\* playback state is nevertheless set to the next state of the table.
C8_AsStated ==
    \A i \in 1..Len(calls) :
        (calls[i].key \in TableButtons /\ calls[i].popen = "raised") =>
            Post(i) = TableNext(calls[i].key, calls[i].pre)

\* C8 (amended): when the launch for a table button raises an error, the
\* playback state is left as it was before the press.
C8_LaunchFailureKeepsState ==
    \A i \in 1..Len(calls) :
        (calls[i].key \in TableButtons /\ calls[i].popen = "raised") =>
            /\ calls[i].command # ""
            /\ Post(i) = calls[i].pre

\* A 'pause' press while Playing whose launch raised: still Playing.
C8_Witness ==
    \E i \in 1..Len(calls) :
        /\ calls[i].key = "pause"
        /\ calls[i].popen = "raised"
        /\ calls[i].pre = "playing"
        /\ Post(i) = "playing"

\* C9: whenever a launch raised, for any button and playback state, the
\* error did not leave the handler, the playback state afterwards is Idle,
\* Playing or Paused, and every button can still be pressed and is routed.
C9_LaunchFailureNotPropagated ==
    (\E i \in 1..Len(calls) : calls[i].popen = "raised") =>
        /\ ~uncaught
        /\ \A i \in 1..Len(calls) : Post(i) \in PlayStates
        /\ Len(calls) < MaxPresses =>
              \A key \in Buttons : ENABLED execute_command(key, "ok")

\* A press whose launch raised, followed by a press that was launched and
\* changed the playback state.
C9_Witness ==
    \E i \in 1..(Len(calls) - 1) :
        /\ calls[i].popen = "raised"
        /\ ~uncaught
        /\ calls[i + 1].popen = "ok"
        /\ Post(i + 1) # calls[i + 1].pre

\* C10: the playback state is Idle initially, and every step that takes it
\* from Playing or Paused to Idle is a press of 'stop'.
C10_IdleOnlyByStop ==
    /\ play_state = ""
    /\ [][(play_state \in {"playing", "paused"} /\ play_state' = "") =>
            /\ Len(calls') = Len(calls) + 1
            /\ calls'[Len(calls')].key = "stop"]_vars

\* A launched 'stop' press while Paused: the state is Idle again.
C10_Witness ==
    /\ Len(calls) > 0
    /\ calls[Len(calls)].key = "stop"
    /\ calls[Len(calls)].pre = "paused"
    /\ play_state = ""

(***************************************************************************)
(* Properties of the drag handlers (setup_dragging).                       *)
(***************************************************************************)

\* |dx| + |dy| between two points.
Distance(p, q) == Abs(p[1] - q[1]) + Abs(p[2] - q[2])

\* The most recent mouse event was of this kind.
LastWas(type) == last_event.type = type

\* The most recent mouse event was the primary release that ended a session.
SessionReleased ==
    /\ LastWas("release")
    /\ last_event.button = "left"
    /\ last_event.pre.draggable

\* C11 as stated: while every move since a primary press stayed within the
\* threshold of the press point, the window is where it was at the press and
\* was never repositioned; the primary release of such a session calls the
\* button's original release handler exactly once, which clicks the button
\* once.
C11_AsStated ==
    /\ (draggable /\ ~gesture.far) =>
          ~gesture.moved /\ pos = gesture.start_pos
    /\ (SessionReleased /\ ~gesture.far) =>
          /\ ~gesture.moved /\ pos = gesture.start_pos
          /\ last_event.forwards = 1
          /\ Len(calls) = last_event.pre_calls + 1
          /\ calls[Len(calls)].key = widget

\* C11: while every move since a primary press stayed within the threshold
\* of the press point, the window is where it was at the press and was never
\* repositioned; the primary release of such a session calls the button's
\* original release handler exactly once. That handler clicks the button
\* once when the button is down and the pointer is over it at the release,
\* and not at all otherwise (the press missed the button, or a move or the
\* release found the pointer off it).
C11_ClickCase ==
    /\ (draggable /\ ~gesture.far) =>
          ~gesture.moved /\ pos = gesture.start_pos
    /\ (SessionReleased /\ ~gesture.far) =>
          /\ ~gesture.moved /\ pos = gesture.start_pos
          /\ last_event.forwards = 1
          /\ (last_event.pre_down /\ last_event.inside) =>
                /\ Len(calls) = last_event.pre_calls + 1
                /\ calls[Len(calls)].key = widget
          /\ ~(last_event.pre_down /\ last_event.inside) =>
                /\ Len(calls) = last_event.pre_calls
                /\ play_state = last_event.pre_play

\* A session of two moves within the threshold, released: one click, the
\* window still at its initial position.
C11_Witness ==
    /\ SessionReleased
    /\ gesture.moves = 2 /\ ~gesture.far
    /\ last_event.forwards = 1
    /\ Len(calls) = 1
    /\ pos = <<InitialX, InitialY>>

\* C12: once a move of a session went beyond the threshold, that move and
\* every later move of the session repositions the window (and is not
\* forwarded), and the primary release of the session is not forwarded: no
\* click, no execute_command call, the playback state as before.
C12_DragCase ==
    /\ (LastWas("move") /\ last_event.pre.draggable /\ gesture.far) =>
          /\ drag_started
          /\ gesture.moved
          /\ pos = Minus(last_event.point, last_event.pre.offset)
          /\ last_event.forwards = 0
    /\ (SessionReleased /\ gesture.far) =>
          /\ last_event.forwards = 0
          /\ Len(calls) = last_event.pre_calls
          /\ play_state = last_event.pre_play
          /\ gesture.moved

\* A session that went beyond the threshold, came back within it, and was
\* released: nothing was forwarded and no command was run.
C12_Witness ==
    /\ SessionReleased
    /\ gesture.far /\ gesture.returned
    /\ last_event.forwards = 0
    /\ calls = <<>>
    /\ play_state = ""

\* C13 as stated: drag_started goes from true to false only by a release,
\* whatever press or move events (of any button) arrive before it.
C13_AsStated ==
    [][(drag_started /\ ~drag_started') => last_event'.type = "release"]_vars

\* C13 (amended): drag_started becomes true only by a move, and once true it
\* becomes false only by a primary release or by a new primary press (which
\* starts the session anew); moves and the events of other buttons keep it.
C13_ArmedUntilReleaseOrPress ==
    [][/\ (~drag_started /\ drag_started') => last_event'.type = "move"
       /\ (drag_started /\ ~drag_started') =>
             /\ last_event'.type \in {"release", "press"}
             /\ last_event'.button = "left"]_vars

\* An armed session that stays armed after a move back within the threshold.
C13_Witness ==
    /\ LastWas("move")
    /\ last_event.pre.drag_started
    /\ Distance(last_event.point, press_pos) <= 5
    /\ drag_started

\* C14: with no session active, a move or a release (of any button) leaves
\* draggable, drag_started and offset as they were and the window in place.
C14_InertWithoutSession ==
    ((LastWas("move") \/ LastWas("release")) /\ ~last_event.pre.draggable) =>
        /\ draggable = last_event.pre.draggable
        /\ drag_started = last_event.pre.drag_started
        /\ offset = last_event.pre.offset
        /\ pos = last_event.pre_pos

\* After a session ended, a move far from its press point: nothing changed.
C14_Witness ==
    /\ LastWas("move")
    /\ ~last_event.pre.draggable
    /\ press_pos # None
    /\ Distance(last_event.point, press_pos) > 5
    /\ ~draggable /\ ~drag_started /\ offset = None
    /\ pos = last_event.pre_pos

\* C15: a press or release of a non-primary button leaves draggable,
\* drag_started, press_pos, offset and the window position as they were; in
\* particular it neither starts nor ends a session.
C15_NonPrimaryIgnored ==
    ((LastWas("press") \/ LastWas("release")) /\ last_event.button # "left") =>
        /\ CurrentSession = last_event.pre
        /\ pos = last_event.pre_pos

\* A non-primary release during an armed session: the session goes on.
C15_Witness ==
    /\ LastWas("release")
    /\ last_event.button = "right"
    /\ last_event.pre.draggable /\ last_event.pre.drag_started
    /\ draggable /\ drag_started /\ offset # None

\* C16: a move of an active, not yet armed session arms it exactly when
\* |dx| + |dy| from the press point is greater than 5; at 5 or less the
\* window stays in place, at more it is moved.
C16_ArmsBeyondManhattanFive ==
    (LastWas("move") /\ last_event.pre.draggable /\ ~last_event.pre.drag_started) =>
        LET d == Distance(last_event.point, last_event.pre.press_pos)
        IN  /\ drag_started <=> d > 5
            /\ d <= 5 => pos = last_event.pre_pos /\ last_event.forwards = 1
            /\ d > 5 => pos = Minus(last_event.point, last_event.pre.offset)

\* Press at (100,100), move to (103,103): distance 6, armed, window moved.
C16_Witness ==
    /\ LastWas("move")
    /\ ~last_event.pre.drag_started
    /\ last_event.pre.press_pos = <<100, 100>>
    /\ last_event.point = <<103, 103>>
    /\ drag_started
    /\ pos # last_event.pre_pos

\* C17: a primary press sets offset to the press point minus the window
\* position; the offset then stays the same for the whole session; every
\* move of an armed session puts the window at the pointer minus the offset,
\* so the pointer is at the same offset from the window origin as at the press.
C17_OffsetPreserved ==
    /\ (LastWas("press") /\ last_event.button = "left") =>
          offset = Minus(last_event.point, last_event.pre_pos)
    /\ draggable => offset = Minus(gesture.press_point, gesture.start_pos)
    /\ (LastWas("move") /\ last_event.pre.draggable /\ drag_started) =>
          Minus(last_event.point, pos) = Minus(gesture.press_point, gesture.start_pos)

\* The first armed move of a session pressed off the window origin.
C17_Witness ==
    /\ LastWas("move")
    /\ ~last_event.pre.drag_started /\ drag_started
    /\ offset # <<0, 0>>
    /\ Minus(last_event.point, pos) = offset

\* C18: a primary press that arrives while a session is active overwrites
\* press_pos and offset with the values of the new press, the offset taken
\* against the window position at that press; the moves after it arm by the
\* distance from the new press point and reposition by the new offset.
C18_LastPressWins ==
    /\ (LastWas("press") /\ last_event.button = "left" /\ last_event.pre.draggable) =>
          /\ press_pos = last_event.point
          /\ offset = Minus(last_event.point, last_event.pre_pos)
    /\ (draggable /\ gesture.presses = 2) =>
          /\ press_pos = gesture.press_point
          /\ offset = Minus(gesture.press_point, gesture.start_pos)
    /\ (LastWas("move") /\ last_event.pre.draggable /\ gesture.presses = 2) =>
          /\ ~last_event.pre.drag_started =>
                (drag_started <=> Distance(last_event.point, gesture.press_point) > 5)
          /\ drag_started =>
                pos = Minus(last_event.point,
                            Minus(gesture.press_point, gesture.start_pos))

\* A second press, at another point and after the window was dragged, and
\* then a move that arms and repositions by the new values.
C18_Witness ==
    /\ LastWas("move")
    /\ gesture.presses = 2
    /\ gesture.start_pos # <<InitialX, InitialY>>
    /\ gesture.press_point # <<100, 100>>
    /\ ~last_event.pre.drag_started /\ drag_started
    /\ pos = Minus(last_event.point, offset)

\* C20: every press event calls the button's original press handler exactly
\* once; for a primary press that handler finds the session fields already
\* set (draggable, not drag_started, press_pos and offset of this press).
C20_PressForwardedAfterBookkeeping ==
    LastWas("press") =>
        /\ last_event.forwards = 1
        /\ last_event.button = "left" =>
              last_event.seen =
                  Session(TRUE, FALSE, Minus(last_event.point, last_event.pre_pos),
                          last_event.point)
        /\ last_event.button # "left" => last_event.seen = last_event.pre

\* A primary press that starts a session: the original handler saw it started.
C20_Witness ==
    /\ LastWas("press")
    /\ last_event.button = "left"
    /\ ~last_event.pre.draggable
    /\ last_event.seen.draggable
    /\ last_event.seen.press_pos = last_event.point
    /\ last_event.forwards = 1

(***************************************************************************)
(* Properties of the delayed voice/speed commands.                         *)
(***************************************************************************)

\* C19 (as stated): the commands handed to execute_commands_with_delay are
\* launched at most once each and in the order they were handed over, also
\* when a batch is handed over while an earlier batch still has a command
\* waiting for its timer.
C19_LaunchedInSubmissionOrder ==
    \A i, j \in DOMAIN launched :
        i < j => launched[i].id < launched[j].id

\* The command at position k of `submitted` has been launched.
IsLaunched(k) == \E i \in DOMAIN launched : launched[i].id = k

\* C21: play_state changes only in a step that routes a button press, that
\* is, a step that runs execute_command (it appends its record to calls,
\* with the state it started from).  Hence every other step (a pointer
\* press, move or release that ends no click, opening, confirming or
\* cancelling the panel, a dropdown change, a timer that launches a deferred
\* voice or speed command, time passing) leaves play_state unchanged.
C21_PlayStateWrittenOnlyByRouter ==
    [][ /\ play_state' # play_state =>
            /\ Len(calls') = Len(calls) + 1
            /\ calls'[Len(calls')].pre = play_state
        /\ calls' = calls => play_state' = play_state ]_vars

\* One button press set the state to "playing"; pointer events were
\* delivered, the panel was opened and a dropdown changed, and the state is
\* still the one the press left.
C21_Witness ==
    /\ Len(calls) = 1
    /\ calls[1].pre = ""
    /\ play_state = "playing"
    /\ n_events > 0
    /\ expanded
    /\ dropdown_changed

\* C22: at startup the initializing flag is set exactly when there is a
\* command to replay (none when Remember_Voice_and_Speed is false); it is
\* never set afterwards; and it is cleared (finish_initialization) only when
\* every command of the startup batch has been launched.
C22_InitializingCoversStartupBatch ==
    /\ (initializing <=> InitialCommands(current_voice, current_speed, behavior) # <<>>)
    /\ [][ /\ initializing' => initializing
           /\ (initializing /\ ~initializing')
                 => \A k \in Range(startup) : IsLaunched(k) ]_vars

\* finish_initialization has run after a startup batch of two commands.
C22_Witness ==
    /\ Len(startup) = 2
    /\ ~initializing
    /\ \A k \in Range(startup) : IsLaunched(k)

\* The panel is confirmed: the OK button, or a right click while expanded.
ConfirmStep ==
    /\ expanded
    /\ \E outcome \in PopenOutcomes :
          ok_clicked(outcome) \/ contextMenuEvent(outcome)

\* The commands handed over by the current step.
NewlySubmitted == SubSeq(submitted', Len(submitted) + 1, Len(submitted'))

\* C23: confirming the panel hands over, for voice and for speed
\* independently, the change command with the pending choice exactly when
\* that choice is non-empty, differs from the current one and the command is
\* configured, and then current becomes pending; with both, the voice
\* command is launched first (in the step itself) and the speed command is
\* not launched yet; confirming a panel with no dropdown change since it was
\* opened launches nothing and keeps current_voice and current_speed.
C23_ConfirmAppliesPending ==
    [][ ConfirmStep =>
          LET voice == pending_voice \notin {"", Unset}
                       /\ pending_voice # current_voice /\ behavior.VoiceChange
              speed == pending_speed \notin {"", Unset}
                       /\ pending_speed # current_speed /\ behavior.SpeedChange
              vcmd  == [type |-> "voice", choice |-> pending_voice]
              scmd  == [type |-> "speed", choice |-> pending_speed]
          IN  /\ current_voice' = IF voice THEN pending_voice ELSE current_voice
              /\ current_speed' = IF speed THEN pending_speed ELSE current_speed
              /\ NewlySubmitted = (IF voice THEN <<vcmd>> ELSE <<>>)
                                  \o (IF speed THEN <<scmd>> ELSE <<>>)
              /\ (voice \/ speed)
                    => /\ Len(launched') = Len(launched) + 1
                       /\ launched'[Len(launched')].id = Len(submitted) + 1
              /\ (voice /\ speed)
                    => \A i \in DOMAIN launched' : launched'[i].id # Len(submitted) + 2
              /\ ~(voice \/ speed) => launched' = launched
              /\ ~dropdown_changed
                    => /\ launched' = launched
                       /\ submitted' = submitted
                       /\ current_voice' = current_voice
                       /\ current_speed' = current_speed ]_vars

\* A confirm has just applied a voice and a speed change together: the voice
\* command is launched, the speed command waits.
C23_Witness ==
    /\ startup = <<>>
    /\ Len(submitted) = 2
    /\ submitted[1].type = "voice" /\ submitted[1].choice = current_voice
    /\ submitted[2].type = "speed" /\ submitted[2].choice = current_speed
    /\ Len(launched) = 1 /\ launched[1].id = 1
    /\ dropdown_changed

\* C24 (as stated): the Cancel button keeps current_voice and current_speed,
\* launches and hands over no command, and leaves pending_voice and
\* pending_speed equal to the current values.
C24_CancelResetsPending ==
    [][ cancel_changes =>
          /\ current_voice' = current_voice
          /\ current_speed' = current_speed
          /\ launched' = launched
          /\ submitted' = submitted
          /\ pending_voice' = current_voice'
          /\ pending_speed' = current_speed' ]_vars

\* C25: selecting a voice or a speed in a dropdown changes pending_voice or
\* pending_speed only (a voice with a speed default in the speed dropdown
\* also sets pending_speed to that default); current_voice and current_speed
\* stay, nothing is launched, handed over or scheduled; commands are handed
\* over only when the panel is confirmed.
C25_DropdownOnlyPending ==
    [][ /\ \A choice \in Range(VoiceChoices) :
              on_voice_dropdown_changed(choice) =>
                 /\ pending_voice' = choice
                 /\ \/ pending_speed' = pending_speed
                    \/ /\ behavior.SpeedDefaults[choice] # ""
                       /\ pending_speed' = behavior.SpeedDefaults[choice]
                 /\ UNCHANGED <<current_voice, current_speed, current_settings,
                                launched, submitted, timers>>
        /\ \A choice \in Range(SpeedChoices) :
              on_speed_dropdown_changed(choice) =>
                 /\ pending_speed' = choice
                 /\ UNCHANGED <<pending_voice, current_voice, current_speed,
                                current_settings, launched, submitted, timers>>
        /\ submitted' # submitted => ConfirmStep ]_vars

\* A voice with a speed default is selected and not applied: pending differs
\* from current for both the voice and the speed.
C25_Witness ==
    /\ expanded_widget
    /\ dropdown_changed
    /\ pending_voice \in Range(VoiceChoices)
    /\ pending_voice # current_voice
    /\ behavior.SpeedDefaults[pending_voice] # ""
    /\ pending_speed = behavior.SpeedDefaults[pending_voice]
    /\ pending_speed # current_speed
    /\ current_speed # ""

\* The timer that waits to launch the command at position k of `submitted`.
WaitsFor(t, k) ==
    t.kind = "next" /\ t.index < Len(t.batch) /\ t.batch[t.index + 1] = k

\* C26: a batch handed to execute_commands_with_delay has its first command
\* launched in the same step; a later command of a batch is launched only by
\* the timer set when its predecessor was launched; launching a command that
\* has a successor in its batch schedules that successor whether or not the
\* launch raised, and every command handed over is launched eventually; a
\* step that hands over no command launches nothing and schedules nothing.
C26_BatchLaunchedInTurn ==
    /\ launched = (IF submitted # <<>> THEN <<launched[1]>> ELSE <<>>)
    /\ submitted # <<>> => launched[1].id = 1
    /\ submitted = <<>> => timers = <<>>
    /\ Len(submitted) > 1
          => \E i \in DOMAIN timers :
                WaitsFor(timers[i], 2) /\ timers[i].remaining = DelayTicks
    /\ [][ /\ submitted' # submitted
              => /\ Len(launched') = Len(launched) + 1
                 /\ launched'[Len(launched')].id = Len(submitted) + 1
                 /\ SubSeq(launched', 1, Len(launched)) = launched
                 /\ Len(submitted') > Len(submitted) + 1
                       => \E i \in DOMAIN timers' :
                             /\ WaitsFor(timers'[i], Len(submitted) + 2)
                             /\ timers'[i].remaining = DelayTicks
           /\ (submitted' = submitted /\ launched' # launched)
              => /\ Len(launched') = Len(launched) + 1
                 /\ SubSeq(launched', 1, Len(launched)) = launched
                 /\ LET k == launched'[Len(launched')].id
                    IN  /\ k > 1
                        /\ IsLaunched(k - 1)
                        /\ ~IsLaunched(k)
                        /\ \E i \in DOMAIN timers :
                              WaitsFor(timers[i], k) /\ timers[i].remaining = 0
           /\ (ConfirmStep /\ submitted' = submitted)
              => launched' = launched /\ timers' = timers ]_vars
    /\ \A k \in 1..MaxSubmitted :
          (Len(submitted) >= k) ~> (IsLaunched(k) \/ app = "quit")

\* The first command of a batch of two raised in the launcher, and the second
\* command of the batch has been launched all the same.
C26_Witness ==
    /\ Len(startup) = 2
    /\ Len(launched) >= 2
    /\ launched[1].id = 1 /\ launched[1].popen = "raised"
    /\ IsLaunched(2)

(***************************************************************************)
(* Invariant of the drag detector.                                         *)
(***************************************************************************)

\* C27: in every reachable state drag_started implies draggable, and offset
\* is None exactly when draggable is false; right after a primary release
\* draggable and drag_started are false and offset is None.
C27_SessionFieldsConsistent ==
    /\ drag_started => draggable
    /\ (offset = None) <=> ~draggable
    /\ (LastWas("release") /\ last_event.button = "left")
          => ~draggable /\ ~drag_started /\ offset = None

\* A primary release has just ended a session that was armed.
C27_Witness ==
    /\ LastWas("release")
    /\ last_event.button = "left"
    /\ last_event.pre.draggable
    /\ last_event.pre.drag_started
    /\ last_event.pre.offset # None

====
